---- MODULE Spec2Model ----
(***************************************************************************)
(* Model of AdvancedProductionPlanner (src/production_planner_gui.py):     *)
(* the requirement aggregation and balance report, the reservation ledger  *)
(* (reserve_materials / release_materials), the production scheduler and   *)
(* the machine utilization.                                                *)
(*                                                                         *)
(* Strings are sequences of one-character strings, so that str.strip and   *)
(* str.split are computed, not assumed.  The sheet and column labels of    *)
(* the workbook are Cyrillic in the source; they are transliterated here:  *)
(*   "Material" = the material-name column, "Na sklade" = the stock        *)
(*   column, number / product_type / area / priority = the order columns   *)
(*   (order number, product type, order area, urgency).                    *)
(* Quantities, hours and dates are exact numbers: a quantity is an integer *)
(* number of units, an operation time an integer number of hundredths of   *)
(* an hour per square metre, a date a day number.                          *)
(***************************************************************************)
EXTENDS Integers, Sequences, FiniteSets, TLC

VARIABLES
    materials_df,        \* the requirement table: [columns, rows]
    stock_data,          \* material name -> stock on hand
    orders_df,           \* the order catalog: [has_priority, rows]
    operation_times,     \* product type -> operation -> hundredths of an hour per m2
    machine_capacity,    \* machine -> hundredths of an hour available per day
    reserved_materials,  \* the ledger: material name -> reserved quantity (keys are created on demand)
    reserved_orders,     \* the committed-order set
    last,                \* the most recent call: operation, arguments, state before it, returned value
    prev                 \* the call before that one

vars == <<materials_df, stock_data, orders_df, operation_times, machine_capacity,
          reserved_materials, reserved_orders, last, prev>>

(***************************************************************************)
(* Bounds of the model.                                                    *)
(***************************************************************************)
MaxSelected == 2         \* longest list of selected order identifiers
MaxReserved == 4         \* largest reserved quantity a reserve call may produce

(***************************************************************************)
(* Strings.                                                                *)
(***************************************************************************)
WS == " "

RECURSIVE lstrip(_)
lstrip(s) == IF s # <<>> /\ Head(s) = WS THEN lstrip(Tail(s)) ELSE s

RECURSIVE rstrip(_)
rstrip(s) == IF s # <<>> /\ s[Len(s)] = WS THEN rstrip(SubSeq(s, 1, Len(s) - 1)) ELSE s

strip(s) == rstrip(lstrip(s))

\* Length of the leading run of non-blank characters of s.
RECURSIVE word_len(_)
word_len(s) == IF s = <<>> \/ Head(s) = WS THEN 0 ELSE 1 + word_len(Tail(s))

\* str.split(): the whitespace-delimited tokens of s, in order.
RECURSIVE split(_)
split(s) ==
    LET t == lstrip(s)
        n == word_len(t)
    IN  IF t = <<>> THEN <<>>
        ELSE <<SubSeq(t, 1, n)>> \o split(SubSeq(t, n + 1, Len(t)))

Range(f) == {f[i] : i \in DOMAIN f}

(***************************************************************************)
(* Cells of the requirement table: a missing value (NaN), a number, or a   *)
(* text.                                                                   *)
(***************************************************************************)
NaN == [k |-> "nan", v |-> 0, s |-> <<>>]
Num(n) == [k |-> "num", v |-> n, s |-> <<>>]
Text(s) == [k |-> "str", v |-> 0, s |-> s]

notna(cell) == cell.k # "nan"

Digits == <<"0", "1", "2", "3", "4", "5", "6", "7", "8", "9">>
DigitValue(c) == (CHOOSE i \in 1..10 : Digits[i] = c) - 1
IsDigit(c) == \E i \in 1..10 : Digits[i] = c

RECURSIVE decimal(_)
decimal(s) == IF s = <<>> THEN 0
              ELSE 10 * decimal(SubSeq(s, 1, Len(s) - 1)) + DigitValue(s[Len(s)])

\* float(value): [ok, v]; ok is FALSE where Python raises ValueError.
to_float(cell) ==
    IF cell.k = "num" THEN [ok |-> TRUE, v |-> cell.v]
    ELSE LET t == strip(cell.s)
         IN  IF t # <<>> /\ \A i \in 1..Len(t) : IsDigit(t[i])
             THEN [ok |-> TRUE, v |-> decimal(t)]
             ELSE [ok |-> FALSE, v |-> 0]

\* value != 0
ne_zero(cell) == cell.k = "str" \/ cell.v # 0

(***************************************************************************)
(* The requirement table.                                                  *)
(***************************************************************************)
MaterialLabel == <<"M", "a", "t", "e", "r", "i", "a", "l">>
StockLabel == <<"N", "a", " ", "s", "k", "l", "a", "d", "e">>

\* Index of the column labelled exactly `label`, 0 when there is none.
column_of(df, label) ==
    IF \E j \in 1..Len(df.columns) : df.columns[j] = label
    THEN CHOOSE j \in 1..Len(df.columns) : df.columns[j] = label
    ELSE 0

\* The stripped names of the rows whose material cell is not missing, in row order.
RECURSIVE names_from(_, _, _)
names_from(df, c, i) ==
    IF i > Len(df.rows) THEN <<>>
    ELSE (IF notna(df.rows[i][c]) THEN <<strip(df.rows[i][c].s)>> ELSE <<>>)
         \o names_from(df, c, i + 1)

all_materials(df) ==
    LET c == column_of(df, MaterialLabel)
    IN  IF c = 0 THEN <<>> ELSE names_from(df, c, 1)

\* An accumulation that keeps the last quantity instead of the sum.
add_to_assigned(d, k, x) == IF k \in DOMAIN d THEN [d EXCEPT ![k] = x] ELSE d @@ (k :> x)

\* d[k] += x on a defaultdict(float)
add_to(d, k, x) == IF k \in DOMAIN d THEN [d EXCEPT ![k] = @ + x] ELSE d @@ (k :> x)

\* d.get(k, 0)
get(d, k) == IF k \in DOMAIN d THEN d[k] ELSE 0

\* d[k] = x
put(d, k, x) == IF k \in DOMAIN d THEN [d EXCEPT ![k] = x] ELSE d @@ (k :> x)

EmptyDict == [k \in {} |-> 0]

\* load_all_data: the stock map, read from the stock column when the table has one.
RECURSIVE load_stock(_, _, _, _, _)
load_stock(df, m, c, i, acc) ==
    IF i > Len(df.rows) THEN acc
    ELSE LET row == df.rows[i]
             stock == IF notna(row[c]) THEN row[c] ELSE Num(0)
         IN  load_stock(df, m, c, i + 1,
                        IF notna(row[m]) THEN put(acc, strip(row[m].s), to_float(stock).v)
                        ELSE acc)

stock_of(df) ==
    LET m == column_of(df, MaterialLabel)
        c == column_of(df, StockLabel)
    IN  IF c = 0 THEN EmptyDict ELSE load_stock(df, m, c, 1, EmptyDict)

(***************************************************************************)
(* calculate_material_requirements.                                        *)
(***************************************************************************)
\* A match on any part of the header: order_num_clean in col_str.
column_matches_substring(order_num, col) ==
    LET order_num_clean == strip(order_num)
        col_str == strip(col)
    IN  \E a \in 1..(Len(col_str) - Len(order_num_clean) + 1) :
            SubSeq(col_str, a, a + Len(order_num_clean) - 1) = order_num_clean

\* A match on the beginning of the header: col_str.startswith(order_num_clean).
column_matches_prefix(order_num, col) ==
    LET order_num_clean == strip(order_num)
        col_str == strip(col)
    IN  /\ Len(order_num_clean) <= Len(col_str)
        /\ SubSeq(col_str, 1, Len(order_num_clean)) = order_num_clean

\* Whether the column labelled col serves the order order_num.
column_matches(order_num, col) ==
    LET order_num_clean == strip(order_num)
        col_str == strip(col)
    IN  order_num_clean = col_str \/ order_num_clean \in Range(split(col_str))

\* The columns (by index, in table order) that serve the order.
order_columns(df, order_num) ==
    SelectSeq([j \in 1..Len(df.columns) |-> j],
              LAMBDA j : column_matches(order_num, df.columns[j]))

\* What one cell adds to total_requirement.
cell_requirement(value) ==
    IF notna(value) /\ ne_zero(value)
    THEN (IF to_float(value).ok THEN to_float(value).v ELSE 0)
    ELSE 0

\* total_requirement of the material at position material_idx, over the order's columns.
RECURSIVE total_requirement(_, _, _)
total_requirement(df, cols, material_idx) ==
    IF cols = <<>> THEN 0
    ELSE cell_requirement(df.rows[material_idx][Head(cols)])
         + total_requirement(df, Tail(cols), material_idx)

\* A test that also keeps a material whose total is zero.
requirement_counts_from_zero(total) == total >= 0

\* if total_requirement > 0
requirement_counts(total) == total > 0

\* The loop over enumerate(all_materials) for one order, from position material_idx on.
RECURSIVE add_order(_, _, _, _, _)
add_order(df, names, cols, material_idx, required) ==
    IF material_idx > Len(names) THEN required
    ELSE LET total == total_requirement(df, cols, material_idx)
         IN  add_order(df, names, cols, material_idx + 1,
                       IF requirement_counts(total)
                       THEN add_to(required, names[material_idx], total)
                       ELSE required)

\* A loop that takes an identifier listed several times only once: set(selected).
RECURSIVE add_orders_distinct(_, _, _, _)
add_orders_distinct(df, names, selected, required) ==
    IF selected = <<>> THEN required
    ELSE LET cols == order_columns(df, Head(selected))
         IN  add_orders_distinct(df, names, Tail(selected),
                                 IF cols # <<>> /\ Head(selected) \notin Range(Tail(selected))
                                 THEN add_order(df, names, cols, 1, required)
                                 ELSE required)

\* The loop over the selected orders.
RECURSIVE add_orders(_, _, _, _)
add_orders(df, names, selected, required) ==
    IF selected = <<>> THEN required
    ELSE LET cols == order_columns(df, Head(selected))
         IN  add_orders(df, names, Tail(selected),
                        IF cols # <<>> THEN add_order(df, names, cols, 1, required)
                        ELSE required)

(***************************************************************************)
(* Inputs: order identifiers, material names and requirement tables.       *)
(***************************************************************************)
Id1 == <<"1">>
Id10 == <<"1", "0">>
Id1Padded == <<" ", "1">>
Id1And10 == <<"1", " ", "1", "0">>
MatA == <<"A">>
MatAPadded == <<"A", " ">>
MatB == <<"B">>

\* Lists of at most MaxSelected identifiers drawn from ids.
Selections(ids) == UNION {[1..n -> ids] : n \in 0..MaxSelected}

Table(columns, rows) == [columns |-> columns, rows |-> rows]

\* Stock 3 of A and 1 of B; order 1 needs 1 A, order 10 needs 2 A and 1 B.
TablePlain ==
    Table(<<MaterialLabel, StockLabel, Id1, Id10>>,
          <<<<Text(MatA), Num(3), Num(1), Num(2)>>,
            <<Text(MatB), Num(1), NaN, Num(1)>>>>)

\* A column shared by orders 1 and 10 and a padded column of order 1; a padded material
\* name, text cells, a negative and a zero quantity, a missing stock cell.
TableGrouped ==
    Table(<<MaterialLabel, Id1And10, Id1Padded, StockLabel>>,
          <<<<Text(MatAPadded), Num(1), Text(<<"x">>), Num(2)>>,
            <<Text(MatB), Text(<<"2">>), Num(-1), NaN>>,
            <<Text(MatA), Num(0), Num(1), Num(4)>>>>)

\* A row without a material name above the named rows, and no stock column.
TableBlankRow ==
    Table(<<MaterialLabel, Id10>>,
          <<<<NaN, Num(2)>>,
            <<Text(MatA), Num(1)>>,
            <<Text(MatB), NaN>>>>)

LedgerTables == {TablePlain, TableGrouped, TableBlankRow}
LedgerIds == {Id1, Id10}

\* The aggregation of every table and selection of the model, computed once.
RequirementMemo ==
    [df \in LedgerTables |->
        ([selected \in Selections(LedgerIds) |->
            add_orders(df, all_materials(df), selected, EmptyDict)] @@ EmptyDict)] @@ EmptyDict

\* required_materials as the loops of calculate_material_requirements leave it.
required_materials(df, selected) ==
    IF df \in DOMAIN RequirementMemo /\ selected \in DOMAIN RequirementMemo[df]
    THEN RequirementMemo[df][selected]
    ELSE add_orders(df, all_materials(df), selected, EmptyDict)

max0(x) == IF x > 0 THEN x ELSE 0
abs(x) == IF x < 0 THEN -x ELSE x

\* Availability without the floor at zero.
available_unfloored(current_stock, already) == current_stock - already

\* Stock not yet reserved.
available(current_stock, already) == max0(current_stock - already)

\* A balance line that takes nothing as reserved yet.
balance_line_ignoring_ledger(stock, reserved, material, required) ==
    [stock |-> get(stock, material),
     reserved |-> 0,
     available |-> available(get(stock, material), 0),
     required |-> required,
     remainder |-> available(get(stock, material), 0) - required]

\* One line of material_balance.
balance_line(stock, reserved, material, required) ==
    LET current_stock == get(stock, material)
        already == get(reserved, material)
        available_stock == available(current_stock, already)
    IN  [stock |-> current_stock,
         reserved |-> already,
         available |-> available_stock,
         required |-> required,
         remainder |-> available_stock - required]

\* A shortfall is a purchase requirement.
needs_purchase(line) == line.remainder < 0

\* Urgency measured against the whole stock instead of half of it.
is_urgent_whole_stock(line) == line.remainder < 0 /\ abs(line.remainder) > line.stock

\* A shortfall of more than half the stock is urgent (abs(balance_after) > current_stock * 0.5).
is_urgent(line) == line.remainder < 0 /\ 2 * abs(line.remainder) > line.stock

ErrorResult == [error |-> TRUE]

\* A check that lets the empty selection through.
nothing_selected_unchecked(selected) == FALSE

\* not selected_order_numbers
nothing_selected(selected) == selected = <<>>

calculate_material_requirements(df, stock, reserved, selected) ==
    IF nothing_selected(selected) THEN ErrorResult
    ELSE LET required == required_materials(df, selected)
             balance == [m \in DOMAIN required |-> balance_line(stock, reserved, m, required[m])]
             purchase == {m \in DOMAIN required : needs_purchase(balance[m])}
             urgent == {m \in DOMAIN required : is_urgent(balance[m])}
         IN  [error |-> FALSE,
              material_requirements |-> required,
              material_balance |-> balance,
              purchase_requirements |-> [m \in purchase |-> abs(balance[m].remainder)],
              urgent_purchase |-> [m \in urgent |-> abs(balance[m].remainder)]]

(***************************************************************************)
(* The reservation ledger.                                                 *)
(***************************************************************************)
\* The ledger after lookups by subscript, which enter an absent material at 0.0.
ledger_after_getitem(reserved, materials) ==
    [m \in materials \ DOMAIN reserved |-> 0] @@ reserved

\* The ledger after the balance loop has looked the materials up with
\* reserved_materials.get(material, 0), which enters nothing.
ledger_after_get(reserved, materials) == reserved

\* The ledger as a call of calculate_material_requirements leaves it.
ledger_after_report(reserved, requirements) ==
    IF requirements.error THEN reserved
    ELSE ledger_after_get(reserved, DOMAIN requirements.material_requirements)

\* Quantities to reserve that stop at what is still available.
quantities_to_reserve_available(requirements) ==
    [m \in DOMAIN requirements.material_requirements |->
        IF requirements.material_requirements[m] > requirements.material_balance[m].available
        THEN requirements.material_balance[m].available
        ELSE requirements.material_requirements[m]]

\* requirements['material_requirements'].items(): what reserve_materials adds to the ledger.
quantities_to_reserve(requirements) == requirements.material_requirements

\* A reserve that overwrites the entry instead of adding to it.
reserved_value_overwritten(held, required) == required

\* The new value of a ledger entry on reserve (an absent entry holds 0.0).
reserved_value(held, required) == held + required

\* reserved[material] += required, for every material of the requirement.
RECURSIVE reserve_all(_, _, _)
reserve_all(reserved, required, todo) ==
    IF todo = {} THEN reserved
    ELSE LET m == CHOOSE x \in todo : TRUE
         IN  reserve_all(put(reserved, m, reserved_value(get(reserved, m), required[m])),
                         required, todo \ {m})

\* A release that clears the entry.
released_value_cleared(held, required) == 0

\* A release without the floor at zero.
released_value_unfloored(held, required) == held - required

\* The new value of a ledger entry on release.
released_value(held, required) == max0(held - required)

\* A release without the membership test, which enters every material of the requirement.
release_all_entering(reserved, required) ==
    [m \in DOMAIN reserved \cup DOMAIN required |->
        IF m \in DOMAIN required THEN released_value(get(reserved, m), required[m])
        ELSE reserved[m]]

\* reserved[material] = max(0, reserved[material] - required), for the materials the ledger holds.
release_all(reserved, required) ==
    [m \in DOMAIN reserved |->
        IF m \in DOMAIN required THEN released_value(reserved[m], required[m])
        ELSE reserved[m]]

\* An update that replaces the committed set by the orders of the call.
orders_update_replaced(orders, order_numbers) == Range(order_numbers)

\* reserved_orders.update(order_numbers)
orders_update(orders, order_numbers) == orders \cup Range(order_numbers)

\* reserved_orders.difference_update(order_numbers)
orders_difference_update(orders, order_numbers) == orders \ Range(order_numbers)

(***************************************************************************)
(* optimize_production_schedule.                                           *)
(***************************************************************************)
DefaultTimePerSqm == 200 \* hundredths of an hour per m2 of a product type without a table
HoursPerDay == 800       \* hundredths of an hour in a working day

\* set_default_operation_times, in hundredths of an hour per m2.
DefaultOperationTimes ==
    [Okno |-> [Rezka |-> 50, Svarka |-> 80, Sborka |-> 120, Pokraska |-> 30, Upakovka |-> 20],
     Dver |-> [Rezka |-> 70, Svarka |-> 100, Sborka |-> 150, Pokraska |-> 40, Upakovka |-> 30],
     Fasad |-> [Rezka |-> 60, Svarka |-> 90, Sborka |-> 130, Pokraska |-> 50, Upakovka |-> 25]]

Order(number, product_type, area, priority) ==
    [number |-> number, product_type |-> product_type, area |-> area, priority |-> priority]

\* The orders a catalog is drawn from: two of equal priority, one product type without
\* an operation-time table, one order number that differs from another by padding only.
CatalogOrders ==
    {Order(Id1, "Okno", 3, 2), Order(Id10, "Dver", 1, 1), Order(Id1Padded, "Stol", 4, 2)}

\* Every catalog of these orders: any number of them, in any order, each at most once.
Catalogs ==
    {rows \in UNION {[1..n -> CatalogOrders] : n \in 0..Cardinality(CatalogOrders)} :
        \A i, j \in DOMAIN rows : i # j => rows[i].number # rows[j].number}

ScheduleIds == {Id1, Id10, Id1Padded}

NoStartDate == [none |-> TRUE, date |-> 0]
StartDate(d) == [none |-> FALSE, date |-> d]
\* The days today can be, and the start dates a caller asks for.
Dates == {0, 5}
StartDates == {NoStartDate, StartDate(5)}

\* A selection test that ignores padding, as the column matching does.
row_selected_stripped(order, selected_orders) ==
    strip(order.number) \in {strip(x) : x \in Range(selected_orders)}

\* orders_df[number].isin(selected_orders), for one row.
row_selected(order, selected_orders) == order.number \in Range(selected_orders)

\* The rows looked up identifier by identifier, in the order of the selection.
RECURSIVE selected_orders_data_by_lookup(_, _)
selected_orders_data_by_lookup(df, selected_orders) ==
    IF selected_orders = <<>> THEN <<>>
    ELSE SelectSeq(df.rows, LAMBDA order : order.number = Head(selected_orders))
         \o selected_orders_data_by_lookup(df, Tail(selected_orders))

\* The selected rows of the catalog, in catalog order.
selected_orders_data(df, selected_orders) ==
    SelectSeq(df.rows, LAMBDA order : row_selected(order, selected_orders))

RECURSIVE sum_times(_, _, _)
sum_times(times, area, todo) ==
    IF todo = {} THEN 0
    ELSE LET operation == CHOOSE x \in todo : TRUE
         IN  times[operation] * area + sum_times(times, area, todo \ {operation})

\* Hours whose fallback forgets the area of the order.
production_time_hours_flat(optimes, order) ==
    IF order.product_type \in DOMAIN optimes
    THEN sum_times(optimes[order.product_type], order.area,
                   DOMAIN optimes[order.product_type])
    ELSE DefaultTimePerSqm

\* production_time_hours of one order, in hundredths of an hour.
production_time_hours(optimes, order) ==
    IF order.product_type \in DOMAIN optimes
    THEN sum_times(optimes[order.product_type], order.area,
                   DOMAIN optimes[order.product_type])
    ELSE order.area * DefaultTimePerSqm

\* A duration cut down to whole days: int(production_time_hours / 8).
days_needed_truncated(hours) == hours \div HoursPerDay

\* int(np.ceil(production_time_hours / 8))
days_needed(hours) == (hours + HoursPerDay - 1) \div HoursPerDay

\* The priority column, 1 for every order when the catalog has none.
priority_of(df, order) == IF df.has_priority THEN order.priority ELSE 1

\* sort_values('priority', ascending=True) with the default kind (quicksort, which is
\* not stable): every arrangement of the rows by ascending priority.
sort_values(df, rows) ==
    {[i \in DOMAIN rows |-> rows[p[i]]] :
        p \in {q \in [DOMAIN rows -> DOMAIN rows] :
                 /\ \A i, j \in DOMAIN rows : i # j => q[i] # q[j]
                 /\ \A i, j \in DOMAIN rows :
                       i < j => priority_of(df, rows[q[i]]) <= priority_of(df, rows[q[j]])}}

\* A layout without the changeover day.
next_date_no_gap(current_date, days) == current_date + days

\* current_date += timedelta(days=int(days_needed) + 1)
next_date(current_date, days) == current_date + days + 1

\* The schedule entries of the sorted orders, laid out from current_date.
RECURSIVE lay_out(_, _, _)
lay_out(optimes, orders, current_date) ==
    IF orders = <<>> THEN <<>>
    ELSE LET order == Head(orders)
             hours == production_time_hours(optimes, order)
             days == days_needed(hours)
         IN  <<[number |-> order.number,
                product_type |-> order.product_type,
                area |-> order.area,
                start |-> current_date,
                end |-> current_date + days,
                days |-> days,
                hours |-> hours]>>
             \o lay_out(optimes, Tail(orders), next_date(current_date, days))

\* current_date when the loop over the sorted orders ends.
RECURSIVE date_after(_, _, _)
date_after(optimes, orders, current_date) ==
    IF orders = <<>> THEN current_date
    ELSE date_after(optimes, Tail(orders),
                    next_date(current_date,
                              days_needed(production_time_hours(optimes, Head(orders)))))

RECURSIVE sum_hours(_)
sum_hours(schedule) ==
    IF schedule = <<>> THEN 0 ELSE Head(schedule).hours + sum_hours(Tail(schedule))

\* The report for the rows as sorted.
schedule_report(optimes, sorted, start_date) ==
    LET schedule == lay_out(optimes, sorted, start_date)
    IN  [error |-> FALSE,
         schedule |-> schedule,
         total_orders |-> Len(schedule),
         total_days |-> date_after(optimes, sorted, start_date) - start_date,
         total_hours |-> sum_hours(schedule)]

\* The values optimize_production_schedule can return.
optimize_production_schedule(df, optimes, selected_orders, start_date) ==
    LET rows == selected_orders_data(df, selected_orders)
    IN  IF rows = <<>> THEN {ErrorResult}
        ELSE {schedule_report(optimes, sorted, start_date) : sorted \in sort_values(df, rows)}

(***************************************************************************)
(* calculate_machine_utilization.                                          *)
(***************************************************************************)
\* set_default_machine_capacity, in hundredths of an hour per day.
DefaultMachineCapacity ==
    [Rezka |-> 800, Svarka |-> 1000, Sborka |-> 1200, Pokraska |-> 800, Upakovka |-> 1000]

\* load_machine_data: machine_capacity[machine] = capacity, row by row.
RECURSIVE load_machine_data(_, _)
load_machine_data(rows, capacity) ==
    IF rows = <<>> THEN capacity
    ELSE load_machine_data(Tail(rows), put(capacity, Head(rows).machine, Head(rows).capacity))

\* An equipment sheet: an idle machine, one hour a day of assembly, a machine that no
\* operation uses, and a later row that replaces an earlier one.
MachineSheet ==
    <<[machine |-> "Rezka", capacity |-> 800],
      [machine |-> "Svarka", capacity |-> 1000],
      [machine |-> "Sborka", capacity |-> 100],
      [machine |-> "Lak", capacity |-> 800],
      [machine |-> "Rezka", capacity |-> 0]>>

MachineCapacities == {DefaultMachineCapacity, load_machine_data(MachineSheet, EmptyDict)}

\* machine_workload[operation] += time_per_sqm * area, over the operations of one order.
RECURSIVE add_workload(_, _, _, _)
add_workload(workload, times, area, todo) ==
    IF todo = {} THEN workload
    ELSE LET operation == CHOOSE x \in todo : TRUE
         IN  add_workload(IF operation \in DOMAIN workload
                          THEN put(workload, operation, workload[operation] + times[operation] * area)
                          ELSE workload,
                          times, area, todo \ {operation})

\* The loop over the schedule entries.
RECURSIVE machine_workload(_, _, _)
machine_workload(optimes, schedule, workload) ==
    IF schedule = <<>> THEN workload
    ELSE LET order == Head(schedule)
         IN  machine_workload(optimes, Tail(schedule),
                 IF order.product_type \in DOMAIN optimes
                 THEN add_workload(workload, optimes[order.product_type], order.area,
                                   DOMAIN optimes[order.product_type])
                 ELSE workload)

\* A percentage is an exact fraction num / den.
Fraction(num, den) == [num |-> num, den |-> den]

\* machine_capacity.get(machine, 8) * len(schedule)
capacity_hours(daily, schedule) == daily * Len(schedule)

\* A percentage without the cap at 100.
utilization_percent_uncapped(workload, capacity) ==
    IF capacity > 0 THEN Fraction(workload * 100, capacity) ELSE Fraction(0, 1)

\* min(100, workload / capacity * 100) if capacity > 0 else 0
utilization_percent(workload, capacity) ==
    IF capacity > 0
    THEN (IF workload * 100 >= 100 * capacity THEN Fraction(100, 1)
          ELSE Fraction(workload * 100, capacity))
    ELSE Fraction(0, 1)

calculate_machine_utilization(capacities, optimes, schedule) ==
    LET workload == machine_workload(optimes, schedule, [machine \in DOMAIN capacities |-> 0])
    IN  [machine \in DOMAIN workload |->
            LET capacity == capacity_hours(capacities[machine], schedule)
            IN  [workload_hours |-> workload[machine],
                 capacity_hours |-> capacity,
                 utilization_percent |-> utilization_percent(workload[machine], capacity)]]

NoCall == [op |-> "none"]

Call(op, selected, result) ==
    [op |-> op, selected |-> selected, reserved |-> reserved_materials,
     orders |-> reserved_orders, result |-> result]

\* prev keeps the call before the last one while that call is a reserve of the same list.
Before(selected) == IF last.op = "reserve" /\ last.selected = selected THEN last ELSE NoCall

(***************************************************************************)
(* The state after construction (__init__, load_all_data).                 *)
(***************************************************************************)
Loaded(df) ==
    /\ materials_df = df
    /\ stock_data = stock_of(df)
    /\ reserved_materials = EmptyDict
    /\ reserved_orders = {}
    /\ last = NoCall
    /\ prev = NoCall

NoOrders == [has_priority |-> FALSE, rows |-> <<>>]

Init ==
    /\ \E df \in LedgerTables : Loaded(df)
    /\ orders_df = NoOrders
    /\ operation_times = DefaultOperationTimes
    /\ machine_capacity = DefaultMachineCapacity

Config == <<materials_df, stock_data, orders_df, operation_times, machine_capacity>>

(***************************************************************************)
(* The operations.                                                         *)
(***************************************************************************)
Calculate(selected) ==
    /\ last' = Call("calculate", selected,
                    calculate_material_requirements(materials_df, stock_data,
                                                    reserved_materials, selected))
    /\ prev' = Before(selected)
    /\ reserved_materials' = ledger_after_report(reserved_materials, last'.result)
    /\ UNCHANGED <<Config, reserved_orders>>

\* reserve_materials once the requirements of order_numbers are computed.
ReserveComputed(order_numbers, requirements) ==
    /\ last' = Call("reserve", order_numbers, requirements)
    /\ prev' = Before(order_numbers)
    /\ IF requirements.error
       THEN UNCHANGED <<reserved_materials, reserved_orders>>
       ELSE /\ reserved_materials' =
                   reserve_all(ledger_after_report(reserved_materials, requirements),
                               quantities_to_reserve(requirements),
                               DOMAIN quantities_to_reserve(requirements))
            /\ \A m \in DOMAIN reserved_materials' : reserved_materials'[m] <= MaxReserved
            /\ reserved_orders' = orders_update(reserved_orders, order_numbers)
    /\ UNCHANGED Config

Reserve(order_numbers) ==
    ReserveComputed(order_numbers,
                    calculate_material_requirements(materials_df, stock_data,
                                                    reserved_materials, order_numbers))

\* release_materials once the requirements of order_numbers are computed.
ReleaseComputed(order_numbers, requirements) ==
    /\ last' = Call("release", order_numbers, requirements)
    /\ prev' = Before(order_numbers)
    /\ IF requirements.error
       THEN UNCHANGED <<reserved_materials, reserved_orders>>
       ELSE /\ reserved_materials' =
                   release_all(ledger_after_report(reserved_materials, requirements),
                               requirements.material_requirements)
            /\ reserved_orders' = orders_difference_update(reserved_orders, order_numbers)
    /\ UNCHANGED Config

Release(order_numbers) ==
    ReleaseComputed(order_numbers,
                    calculate_material_requirements(materials_df, stock_data,
                                                    reserved_materials, order_numbers))

\* start_date is today's date, whatever that is, when none is given.
Schedule(selected_orders, start_date) ==
    /\ \E start \in (IF start_date.none THEN Dates ELSE {start_date.date}) :
          \E result \in optimize_production_schedule(orders_df, operation_times,
                                                     selected_orders, start) :
              last' = [op |-> "schedule", selected |-> selected_orders,
                       start_date |-> start_date, reserved |-> reserved_materials,
                       orders |-> reserved_orders, result |-> result]
    /\ prev' = NoCall
    /\ UNCHANGED <<Config, reserved_materials, reserved_orders>>

\* analyze_machine_utilization passes the schedule just computed; a caller of the planner
\* can pass any schedule, the empty one included.
Utilization(schedule) ==
    /\ last' = [op |-> "utilization", schedule |-> schedule,
                reserved |-> reserved_materials, orders |-> reserved_orders,
                result |-> calculate_machine_utilization(machine_capacity, operation_times,
                                                         schedule)]
    /\ prev' = NoCall
    /\ UNCHANGED <<Config, reserved_materials, reserved_orders>>

\* The schedules at hand: the empty one and the one the last call returned.
Schedules ==
    {<<>>} \cup (IF last.op = "schedule" /\ ~last.result.error THEN {last.result.schedule}
                 ELSE {})

Next ==
    \/ \E selected \in Selections(LedgerIds) : Calculate(selected)
    \/ \E order_numbers \in Selections(LedgerIds) : Reserve(order_numbers)
    \/ \E order_numbers \in Selections(LedgerIds) : Release(order_numbers)

Spec == Init /\ [][Next]_vars

\* The planner loaded with an order catalog, with or without a priority column, and the
\* default operation times (the workbook has no operations sheet).
InitSchedule ==
    /\ Loaded(TablePlain)
    /\ \E rows \in Catalogs, has_priority \in BOOLEAN :
          orders_df = [has_priority |-> has_priority, rows |-> rows]
    /\ operation_times = DefaultOperationTimes
    /\ machine_capacity = DefaultMachineCapacity

NextSchedule ==
    \E selected_orders \in Selections(ScheduleIds), start_date \in StartDates :
        Schedule(selected_orders, start_date)

SpecSchedule == InitSchedule /\ [][NextSchedule]_vars

\* The planner with materials, an order catalog and an equipment sheet or none: the
\* reports and the schedule are asked for while reservations are being made.
OrdersSheet ==
    [has_priority |-> TRUE,
     rows |-> <<Order(Id1, "Okno", 3, 2), Order(Id10, "Dver", 1, 1),
                Order(Id1Padded, "Stol", 4, 2)>>]

InitPlanner ==
    /\ Loaded(TablePlain)
    /\ orders_df = OrdersSheet
    /\ operation_times = DefaultOperationTimes
    /\ machine_capacity \in MachineCapacities

NextPlanner ==
    \/ \E selected \in Selections(LedgerIds) : Calculate(selected)
    \/ \E order_numbers \in Selections(LedgerIds) : Reserve(order_numbers)
    \/ \E selected_orders \in Selections(LedgerIds), start_date \in StartDates :
          Schedule(selected_orders, start_date)
    \/ \E schedule \in Schedules : Utilization(schedule)

SpecPlanner == InitPlanner /\ [][NextPlanner]_vars

(***************************************************************************)
(* Properties of the ledger and of the balance report.                     *)
(***************************************************************************)
IsLedgerCall(c) == c.op \in {"calculate", "reserve", "release"}
Reported(c) == IsLedgerCall(c) /\ ~c.result.error
Keys(a, b) == DOMAIN a \cup DOMAIN b

\* last is a call on the non-empty list S and the call before it was reserve(S).
AfterReserveOfSame(op) ==
    /\ last.op = op
    /\ prev.op = "reserve"
    /\ prev.selected = last.selected
    /\ last.selected # <<>>

\* C1: reserve_materials(S) immediately followed by release_materials(S), S not empty,
\* leaves the reserved quantity of every material as it was before the reserve.
C1_Conservation ==
    AfterReserveOfSame("release") =>
        \A m \in Keys(reserved_materials, prev.reserved) :
            get(reserved_materials, m) = get(prev.reserved, m)

\* Reached: a reserve and release of the same orders over a ledger that already held
\* some of a material they require.
C1_Witness ==
    /\ AfterReserveOfSame("release")
    /\ \E m \in DOMAIN last.result.material_requirements : get(prev.reserved, m) > 0

\* C2: after any sequence of reserve and release calls no reserved quantity is negative.
C2_NonNegative == \A m \in DOMAIN reserved_materials : reserved_materials[m] >= 0

\* Reached: a release that asked for more of a material than the ledger held.
C2_Witness ==
    /\ last.op = "release"
    /\ ~last.result.error
    /\ \E m \in DOMAIN last.result.material_requirements :
          /\ m \in DOMAIN last.reserved
          /\ last.reserved[m] > 0
          /\ last.reserved[m] < last.result.material_requirements[m]
          /\ reserved_materials[m] = 0

\* The remainder of material m in the report of call c, from the state the call read.
RemainderAt(c, m) ==
    max0(get(stock_data, m) - get(c.reserved, m)) - c.result.material_requirements[m]

\* C3: a material is in purchase_requirements iff its remainder is negative, with value
\* |remainder|; it is in urgent_purchase iff also |remainder| > 0.5 * stock (stock 0 when
\* the material has no stock entry).
C3_PurchaseList ==
    Reported(last) =>
        LET r == last.result
        IN  /\ DOMAIN r.purchase_requirements \subseteq DOMAIN r.material_requirements
            /\ DOMAIN r.urgent_purchase \subseteq DOMAIN r.material_requirements
            /\ \A m \in DOMAIN r.material_requirements :
                  LET rem == RemainderAt(last, m)
                  IN  /\ m \in DOMAIN r.purchase_requirements <=> rem < 0
                      /\ m \in DOMAIN r.purchase_requirements =>
                            r.purchase_requirements[m] = abs(rem)
                      /\ m \in DOMAIN r.urgent_purchase <=>
                            (rem < 0 /\ 2 * abs(rem) > get(stock_data, m))
                      /\ m \in DOMAIN r.urgent_purchase => r.urgent_purchase[m] = abs(rem)

\* Reached: a report with a shortfall that is not urgent and one that is.
C3_Witness ==
    /\ Reported(last)
    /\ \E m \in DOMAIN last.result.purchase_requirements :
          m \notin DOMAIN last.result.urgent_purchase
    /\ \E m \in DOMAIN last.result.urgent_purchase : get(stock_data, m) > 0

\* C4: in every balance line available = max(0, stock - reserved), with reserved the
\* current ledger value (0 if absent): available + reserved = stock when stock >= reserved
\* and available = 0 otherwise; and remainder = available - required.
C4_BalanceConsistency ==
    Reported(last) =>
        LET r == last.result
        IN  /\ DOMAIN r.material_balance = DOMAIN r.material_requirements
            /\ \A m \in DOMAIN r.material_balance :
                  LET line == r.material_balance[m]
                  IN  /\ line.stock = get(stock_data, m)
                      /\ line.reserved = get(last.reserved, m)
                      /\ line.required = r.material_requirements[m]
                      /\ line.stock >= line.reserved =>
                            line.available + line.reserved = line.stock
                      /\ line.stock < line.reserved => line.available = 0
                      /\ line.remainder = line.available - line.required

\* Reached: a balance line of a material reserved beyond its stock, and one within it.
C4_Witness ==
    /\ Reported(last)
    /\ \E m \in DOMAIN last.result.material_balance :
          LET line == last.result.material_balance[m]
          IN  line.stock > 0 /\ line.reserved > line.stock
    /\ \E m \in DOMAIN last.result.material_balance :
          LET line == last.result.material_balance[m]
          IN  line.reserved > 0 /\ line.reserved < line.stock

\* C8: reserve_materials(S) twice in a row succeeds both times, raises the reserved
\* quantity of every material by twice the requirement of S, and leaves the committed-order
\* set as it was after the first call.
C8_DoubleReserve ==
    AfterReserveOfSame("reserve") =>
        LET required == add_orders(materials_df, all_materials(materials_df),
                                   last.selected, EmptyDict)
        IN  /\ ~prev.result.error
            /\ ~last.result.error
            /\ \A m \in Keys(reserved_materials, prev.reserved) \cup DOMAIN required :
                  get(reserved_materials, m) = get(prev.reserved, m) + 2 * get(required, m)
            /\ last.orders = orders_update(prev.orders, last.selected)
            /\ reserved_orders = last.orders

\* Reached: a second reserve of the same orders, which require some material.
C8_Witness ==
    /\ AfterReserveOfSame("reserve")
    /\ last.result.material_requirements # EmptyDict
    /\ last.result.material_requirements = prev.result.material_requirements

\* C9: with an empty order collection calculate_material_requirements, reserve_materials
\* and release_materials return the error result and change neither the ledger nor the
\* committed-order set.
C9_EmptySelection ==
    (IsLedgerCall(last) /\ last.selected = <<>>) =>
        /\ last.result = ErrorResult
        /\ reserved_materials = last.reserved
        /\ reserved_orders = last.orders

\* Reached: a release with nothing selected while the ledger holds a reservation.
C9_Witness ==
    /\ last.op = "release"
    /\ last.selected = <<>>
    /\ reserved_orders # {}
    /\ \E m \in DOMAIN reserved_materials : reserved_materials[m] > 0

(***************************************************************************)
(* Properties of the production schedule.                                  *)
(***************************************************************************)
Scheduled == last.op = "schedule" /\ ~last.result.error

\* Position in the catalog of the order with this number.
CatalogIndex(number) ==
    CHOOSE j \in DOMAIN orders_df.rows : orders_df.rows[j].number = number

\* Priority of the order of a schedule entry (1 when the catalog has no priority column).
EntryPriority(entry) ==
    IF orders_df.has_priority THEN orders_df.rows[CatalogIndex(entry.number)].priority ELSE 1

\* C5: the schedule is sorted by ascending priority, and two orders of equal priority
\* appear in their catalog order.
C5_ScheduleOrdering ==
    Scheduled =>
        LET schedule == last.result.schedule
        IN  \A i, j \in DOMAIN schedule :
               i < j =>
                  /\ EntryPriority(schedule[i]) <= EntryPriority(schedule[j])
                  /\ EntryPriority(schedule[i]) = EntryPriority(schedule[j]) =>
                        CatalogIndex(schedule[i].number) < CatalogIndex(schedule[j].number)

\* C6: the first entry starts at the requested start_date, each entry ends at its start
\* plus its days, and each later entry starts the day after the previous entry's end plus
\* one day, so no two entries overlap.
C6_ScheduleLayout ==
    Scheduled =>
        LET schedule == last.result.schedule
        IN  /\ ~last.start_date.none => schedule[1].start = last.start_date.date
            /\ \A i \in DOMAIN schedule : schedule[i].end = schedule[i].start + schedule[i].days
            /\ \A i \in DOMAIN schedule : i > 1 => schedule[i].start = schedule[i - 1].end + 1
            /\ \A i, j \in DOMAIN schedule : i < j => schedule[i].end < schedule[j].start

\* Reached: a schedule of two orders of different durations from a requested start date.
C6_Witness ==
    /\ Scheduled
    /\ ~last.start_date.none
    /\ last.start_date.date > 0
    /\ Len(last.result.schedule) >= 2
    /\ last.result.schedule[1].days # last.result.schedule[2].days

\* C7: total_days is the end date of the last entry minus the requested start date.
C7_TotalDays ==
    (Scheduled /\ ~last.start_date.none) =>
        LET schedule == last.result.schedule
        IN  last.result.total_days = schedule[Len(schedule)].end - last.start_date.date

\* C10: the call returns the error result, and no schedule, exactly when no selected
\* identifier equals the order number of a catalog order; otherwise it returns a schedule.
C10_NoMatchingOrders ==
    last.op = "schedule" =>
        LET resolves == \E i \in DOMAIN last.selected, j \in DOMAIN orders_df.rows :
                            last.selected[i] = orders_df.rows[j].number
        IN  /\ last.result.error <=> ~resolves
            /\ last.result.error => "schedule" \notin DOMAIN last.result
            /\ ~last.result.error => Len(last.result.schedule) >= 1

\* Reached: an error for a selected identifier that differs from a catalog order number
\* by padding only, and nothing else selected resolves.
C10_Witness ==
    /\ last.op = "schedule"
    /\ last.result.error
    /\ \E i \in DOMAIN last.selected, j \in DOMAIN orders_df.rows :
          strip(last.selected[i]) = strip(orders_df.rows[j].number)

(***************************************************************************)
(* Properties of the planner as a whole.                                   *)
(***************************************************************************)
ReadOperations == {"calculate", "schedule", "utilization"}

\* C11: a step of calculate_material_requirements, optimize_production_schedule or
\* calculate_machine_utilization leaves the ledger (its set of keys included), the
\* committed-order set and the stock map as they were, whatever the arguments.
C11_ReadOnly ==
    [][last'.op \in ReadOperations =>
          /\ reserved_materials' = reserved_materials
          /\ DOMAIN reserved_materials' = DOMAIN reserved_materials
          /\ reserved_orders' = reserved_orders
          /\ stock_data' = stock_data]_vars

\* Reached: a report, asked for while the ledger holds reservations, on a material the
\* ledger has no entry for.
C11_Witness ==
    /\ last.op = "calculate"
    /\ ~last.result.error
    /\ reserved_materials # EmptyDict
    /\ reserved_orders # {}
    /\ \E m \in DOMAIN last.result.material_balance : m \notin DOMAIN reserved_materials

\* C12: after a successful reserve of S every identifier of S is in the committed set,
\* after a successful release of S none is, and in both cases every identifier outside S
\* is committed exactly if it was before the call.
C12_CommittedSet ==
    (last.op \in {"reserve", "release"} /\ ~last.result.error) =>
        LET S == Range(last.selected)
        IN  /\ last.op = "reserve" => \A id \in S : id \in reserved_orders
            /\ last.op = "release" => \A id \in S : id \notin reserved_orders
            /\ \A id \in (reserved_orders \cup last.orders) \ S :
                   id \in reserved_orders <=> id \in last.orders

\* Reached: a reserve of S and then a release of S, while an order outside S stays
\* committed.
C12_Witness ==
    /\ AfterReserveOfSame("release")
    /\ Range(last.selected) \subseteq last.orders
    /\ reserved_orders \ Range(last.selected) # {}
    /\ prev.orders \ Range(last.selected) # {}

\* The arrangements of the list s.
Arrangements(s) ==
    {[i \in DOMAIN s |-> s[p[i]]] :
        p \in {q \in [DOMAIN s -> DOMAIN s] : \A i, j \in DOMAIN s : i # j => q[i] # q[j]}}

\* C13: for the table as loaded, the material_requirements a call reports for a list of
\* selected identifiers is what the aggregation yields for every arrangement of that list.
C13_OrderIndependent ==
    Reported(last) =>
        \A arranged \in Arrangements(last.selected) :
            add_orders(materials_df, all_materials(materials_df), arranged, EmptyDict)
                = last.result.material_requirements

\* Reached: a report for two different orders that need different quantities of the
\* same material.
C13_Witness ==
    /\ Reported(last)
    /\ \E i, j \in DOMAIN last.selected :
          /\ last.selected[i] # last.selected[j]
          /\ \E m \in DOMAIN last.result.material_requirements :
                LET alone(id) == get(required_materials(materials_df, <<id>>), m)
                IN  /\ alone(last.selected[i]) > 0
                    /\ alone(last.selected[j]) > 0
                    /\ alone(last.selected[i]) # alone(last.selected[j])

\* C14: for every configured machine, capacity_hours is the daily capacity times the
\* number of schedule entries, and utilization_percent is min(100, workload / capacity * 100)
\* when capacity_hours is positive and 0 otherwise; so it lies between 0 and 100 and is 0
\* for the empty schedule.
C14_Utilization ==
    last.op = "utilization" =>
        /\ DOMAIN last.result = DOMAIN machine_capacity
        /\ \A machine \in DOMAIN machine_capacity :
               LET line == last.result[machine]
                   capacity == machine_capacity[machine] * Len(last.schedule)
                   workload == line.workload_hours
                   percent == line.utilization_percent
                   smaller == IF workload <= capacity THEN workload ELSE capacity
               IN  /\ line.capacity_hours = capacity
                   /\ percent.den > 0
                   /\ capacity > 0 => percent.num * capacity = percent.den * 100 * smaller
                   /\ capacity <= 0 => percent.num = 0
                   /\ 0 <= percent.num /\ percent.num <= 100 * percent.den
                   /\ last.schedule = <<>> => percent.num = 0

\* Reached: the utilization of a schedule of two orders with one machine loaded beyond
\* its capacity, one below it and one without any capacity.
C14_Witness ==
    /\ last.op = "utilization"
    /\ Len(last.schedule) = 2
    /\ \E machine \in DOMAIN last.result :
          last.result[machine].workload_hours > last.result[machine].capacity_hours
          /\ last.result[machine].capacity_hours > 0
    /\ \E machine \in DOMAIN last.result :
          /\ 0 < last.result[machine].workload_hours
          /\ last.result[machine].workload_hours < last.result[machine].capacity_hours
    /\ \E machine \in DOMAIN last.result : last.result[machine].capacity_hours = 0

\* C15: a reserve of a non-empty list succeeds and adds the full requirement of the list
\* to the ledger whether or not the stock still available covers it; the ledger can
\* therefore hold more of a material than there is in stock.
C15_NoStockCheck ==
    (last.op = "reserve" /\ last.selected # <<>>) =>
        /\ ~last.result.error
        /\ LET required == required_materials(materials_df, last.selected)
           IN  \A m \in Keys(reserved_materials, last.reserved) \cup DOMAIN required :
                   get(reserved_materials, m) = get(last.reserved, m) + get(required, m)

\* Reached: a reserve that asked for more of a material than was still available and
\* left more of it reserved than the stock holds.
C15_Witness ==
    /\ last.op = "reserve"
    /\ ~last.result.error
    /\ \E m \in DOMAIN last.result.material_requirements :
          /\ last.result.material_requirements[m]
                 > max0(get(stock_data, m) - get(last.reserved, m))
          /\ get(stock_data, m) > 0
          /\ get(reserved_materials, m) > get(stock_data, m)

\* What the orders ids need of material m, each order counted once.
RECURSIVE CommittedRequirement(_, _)
CommittedRequirement(ids, m) ==
    IF ids = {} THEN 0
    ELSE LET id == CHOOSE x \in ids : TRUE
         IN  get(required_materials(materials_df, <<id>>), m)
             + CommittedRequirement(ids \ {id}, m)

\* C16: after any sequence of reserve and release calls from the empty ledger, the
\* reserved quantity of every material is the sum of the requirements of the orders in
\* the committed set.
C16_LedgerMatchesCommitted ==
    \A m \in DOMAIN reserved_materials \cup Range(all_materials(materials_df)) :
        get(reserved_materials, m) = CommittedRequirement(reserved_orders, m)

\* The rows of the table that carry the material name m.
OwnRows(df, m) ==
    LET c == column_of(df, MaterialLabel)
    IN  {i \in 1..Len(df.rows) : notna(df.rows[i][c]) /\ strip(df.rows[i][c].s) = m}

RECURSIVE SumOver(_, _)
SumOver(f, todo) ==
    IF todo = {} THEN 0
    ELSE LET x == CHOOSE y \in todo : TRUE IN f[x] + SumOver(f, todo \ {x})

\* The positive totals of the selected orders, read from the rows named m.
OwnRowRequirement(df, selected, m) ==
    LET pairs == (DOMAIN selected) \X OwnRows(df, m)
        total == [p \in pairs |->
                    max0(total_requirement(df, order_columns(df, selected[p[1]]), p[2]))]
    IN  SumOver(total, pairs)

\* C17: the quantity a report attributes to a material is read from the rows of the
\* table that carry that material's name, also when a row above them has no name.
C17_RowAlignment ==
    Reported(last) =>
        \A m \in DOMAIN last.result.material_requirements
                  \cup Range(all_materials(materials_df)) :
            get(last.result.material_requirements, m)
                = OwnRowRequirement(materials_df, last.selected, m)

\* t stands in s as a whole word: a non-empty run without blanks that begins at the start
\* of s or after a blank and ends at the end of s or before a blank.
WholeWord(t, s) ==
    /\ t # <<>>
    /\ \A i \in DOMAIN t : t[i] # WS
    /\ \E a \in 1..Len(s) :
          LET b == a + Len(t) - 1
          IN  /\ b <= Len(s)
              /\ SubSeq(s, a, b) = t
              /\ a = 1 \/ s[a - 1] = WS
              /\ b = Len(s) \/ s[b + 1] = WS

\* The trimmed header equals the trimmed identifier or holds it as a whole word.
HeaderServes(id, header) ==
    strip(id) = strip(header) \/ WholeWord(strip(id), strip(header))

ServingColumns(df, id) ==
    SelectSeq([j \in 1..Len(df.columns) |-> j], LAMBDA j : HeaderServes(id, df.columns[j]))

\* The requirement summed over the columns that serve each selected order.
RECURSIVE ServedRequirement(_, _)
ServedRequirement(df, selected) ==
    IF selected = <<>> THEN EmptyDict
    ELSE LET before == ServedRequirement(df, SubSeq(selected, 1, Len(selected) - 1))
             cols == ServingColumns(df, selected[Len(selected)])
         IN  IF cols = <<>> THEN before
             ELSE add_order(df, all_materials(df), cols, 1, before)

\* C18: a column is used for a selected order exactly if its trimmed header equals the
\* trimmed identifier or holds it as a whole blank-delimited word; a header of which the
\* identifier is only a part of a longer word (order 1, header 10) is not used.
C18_ColumnMatching ==
    Reported(last) =>
        /\ last.result.material_requirements = ServedRequirement(materials_df, last.selected)
        /\ \A i \in DOMAIN last.selected :
               order_columns(materials_df, last.selected[i])
                   = ServingColumns(materials_df, last.selected[i])

\* Reached: a report for an order whose identifier is part of a longer word of another
\* header, in a column that holds quantities.
C18_Witness ==
    /\ Reported(last)
    /\ last.result.material_requirements # EmptyDict
    /\ \E i \in DOMAIN last.selected, j \in DOMAIN materials_df.columns :
          LET id == strip(last.selected[i])
              header == strip(materials_df.columns[j])
          IN  /\ ~HeaderServes(id, header)
              /\ Len(id) < Len(header)
              /\ SubSeq(header, 1, Len(id)) = id
              /\ \E r \in DOMAIN materials_df.rows :
                    cell_requirement(materials_df.rows[r][j]) > 0

\* The table with 0 written into every missing or non-numeric cell outside the
\* material-name column.
Zeroed(df) ==
    LET c == column_of(df, MaterialLabel)
    IN  [df EXCEPT !.rows =
            [i \in DOMAIN df.rows |->
                [j \in DOMAIN df.rows[i] |->
                    IF j # c /\ (~notna(df.rows[i][j]) \/ ~to_float(df.rows[i][j]).ok)
                    THEN Num(0)
                    ELSE df.rows[i][j]]]]

\* C19: every material of material_requirements has a strictly positive quantity, a
\* missing or non-numeric cell counts as zero, and material_balance has exactly the
\* materials of material_requirements; a material whose summed requirement is zero is in
\* neither, stock or no stock.
C19_PositiveOnly ==
    Reported(last) =>
        LET required == last.result.material_requirements
        IN  /\ \A m \in DOMAIN required : required[m] > 0
            /\ DOMAIN last.result.material_balance = DOMAIN required
            /\ required = add_orders(Zeroed(materials_df), all_materials(materials_df),
                                     last.selected, EmptyDict)

\* Reached: a report that leaves out a material in stock, for which the selected orders
\* have only a missing or non-numeric cell.
C19_Witness ==
    /\ Reported(last)
    /\ last.result.material_requirements # EmptyDict
    /\ \E r \in DOMAIN materials_df.rows :
          LET c == column_of(materials_df, MaterialLabel)
              m == strip(materials_df.rows[r][c].s)
          IN  /\ notna(materials_df.rows[r][c])
              /\ get(stock_data, m) > 0
              /\ m \notin DOMAIN last.result.material_requirements
              /\ m \notin DOMAIN last.result.material_balance
              /\ \E i \in DOMAIN last.selected :
                    \E j \in Range(order_columns(materials_df, last.selected[i])) :
                        ~notna(materials_df.rows[r][j]) \/ ~to_float(materials_df.rows[r][j]).ok

\* No column of the table serves the order.
Unknown(df, id) == ServingColumns(df, id) = <<>>

\* C20: an identifier that no column serves adds nothing to the requirement and raises
\* no error; a reserve of a list of such identifiers only succeeds, leaves the ledger as
\* it was and adds the identifiers to the committed set.
C20_UnknownOrder ==
    (IsLedgerCall(last) /\ last.selected # <<>>) =>
        LET known == SelectSeq(last.selected, LAMBDA id : ~Unknown(materials_df, id))
        IN  /\ ~last.result.error
            /\ last.result.material_requirements
                   = add_orders(materials_df, all_materials(materials_df), known, EmptyDict)
            /\ (known = <<>> /\ last.op = "reserve") =>
                   /\ last.result.material_requirements = EmptyDict
                   /\ reserved_materials = last.reserved
                   /\ DOMAIN reserved_materials = DOMAIN last.reserved
                   /\ reserved_orders = last.orders \cup Range(last.selected)

\* Reached: a reserve of an order that no column serves, not committed before, while
\* the ledger holds reservations.
C20_Witness ==
    /\ last.op = "reserve"
    /\ last.selected # <<>>
    /\ \A i \in DOMAIN last.selected : Unknown(materials_df, last.selected[i])
    /\ last.reserved # EmptyDict
    /\ \E m \in DOMAIN last.reserved : last.reserved[m] > 0
    /\ ~(Range(last.selected) \subseteq last.orders)
    /\ Range(last.selected) \subseteq reserved_orders

(***************************************************************************)
(* Properties of the schedule entries.                                     *)
(***************************************************************************)
\* C21: the days of every schedule entry are its hours divided by 8 and rounded up: the
\* smallest whole number d with 8 * d >= hours, so at least one day for positive hours.
C21_DaysRoundedUp ==
    Scheduled =>
        \A i \in DOMAIN last.result.schedule :
            LET entry == last.result.schedule[i]
            IN  /\ HoursPerDay * entry.days >= entry.hours
                /\ HoursPerDay * (entry.days - 1) < entry.hours
                /\ entry.hours > 0 => entry.days >= 1

\* Reached: a schedule with an order of exactly one working day of hours and an order
\* whose hours end inside its second day.
C21_Witness ==
    /\ Scheduled
    /\ \E i \in DOMAIN last.result.schedule :
          /\ last.result.schedule[i].hours = HoursPerDay
          /\ last.result.schedule[i].days = 1
    /\ \E i \in DOMAIN last.result.schedule :
          /\ last.result.schedule[i].hours > HoursPerDay
          /\ last.result.schedule[i].hours < 2 * HoursPerDay
          /\ last.result.schedule[i].days = 2

\* C22: the hours of a scheduled order are the sum, over the operations configured for
\* its product type, of the time per square metre times the order's area, or 2 hours per
\* square metre when the product type has no table; total_hours is the sum of the hours
\* of the entries.
C22_ProductionHours ==
    Scheduled =>
        LET schedule == last.result.schedule
        IN  /\ \A i \in DOMAIN schedule :
                   LET entry == schedule[i]
                   IN  IF entry.product_type \in DOMAIN operation_times
                       THEN LET times == operation_times[entry.product_type]
                            IN  entry.hours
                                  = SumOver([operation \in DOMAIN times |->
                                                times[operation] * entry.area], DOMAIN times)
                       ELSE entry.hours = 2 * 100 * entry.area
            /\ last.result.total_hours
                   = SumOver([i \in DOMAIN schedule |-> schedule[i].hours], DOMAIN schedule)

\* Reached: a schedule of an order with an operation-time table and an order without
\* one, both of more than one square metre.
C22_Witness ==
    /\ Scheduled
    /\ \E i, j \in DOMAIN last.result.schedule :
          /\ last.result.schedule[i].product_type \in DOMAIN operation_times
          /\ last.result.schedule[j].product_type \notin DOMAIN operation_times
          /\ last.result.schedule[i].area > 1
          /\ last.result.schedule[j].area > 1
    /\ last.result.total_hours > last.result.schedule[1].hours

(***************************************************************************)
(* Further properties of the aggregation and of the ledger.                *)
(***************************************************************************)
\* C23: the aggregation is additive: split the selected list anywhere into S and T, and
\* the requirement of every material for the whole list is its requirement for S plus
\* its requirement for T, an absent material counting 0; a column shared by several
\* selected orders, or an identifier listed several times, counts once for each.
C23_Additive ==
    Reported(last) =>
        \A k \in 0..Len(last.selected) :
            LET names == all_materials(materials_df)
                S == add_orders(materials_df, names, SubSeq(last.selected, 1, k), EmptyDict)
                T == add_orders(materials_df, names,
                                SubSeq(last.selected, k + 1, Len(last.selected)), EmptyDict)
            IN  \A m \in DOMAIN last.result.material_requirements \cup Keys(S, T) :
                    get(last.result.material_requirements, m) = get(S, m) + get(T, m)

\* Reached: a report for two different orders that share a column with a quantity in it.
C23_Witness ==
    /\ Reported(last)
    /\ Len(last.selected) = 2
    /\ last.selected[1] # last.selected[2]
    /\ \E j \in DOMAIN materials_df.columns, r \in DOMAIN materials_df.rows :
          /\ HeaderServes(last.selected[1], materials_df.columns[j])
          /\ HeaderServes(last.selected[2], materials_df.columns[j])
          /\ cell_requirement(materials_df.rows[r][j]) > 0
    /\ last.result.material_requirements # EmptyDict

\* C24: the report a reserve of S returns is computed against the ledger as it was
\* before the reserve; a report for the same S asked for right after it counts the
\* reservation of S as already reserved: available = max(0, stock - (reserved before
\* + requirement of S)) and remainder = available - requirement of S.
C24_ReserveThenRecalculate ==
    /\ (last.op = "reserve" /\ ~last.result.error) =>
           \A m \in DOMAIN last.result.material_balance :
               LET line == last.result.material_balance[m]
               IN  /\ line.reserved = get(last.reserved, m)
                   /\ line.available = max0(get(stock_data, m) - get(last.reserved, m))
    /\ (AfterReserveOfSame("calculate") /\ ~last.result.error) =>
           LET required == prev.result.material_requirements
           IN  /\ DOMAIN last.result.material_balance = DOMAIN required
               /\ \A m \in DOMAIN required :
                      LET line == last.result.material_balance[m]
                          held == get(prev.reserved, m) + required[m]
                      IN  /\ line.reserved = held
                          /\ line.available = max0(get(stock_data, m) - held)
                          /\ line.remainder = line.available - required[m]

\* Reached: a report right after a reserve of the same orders, for a material of which
\* some was reserved before and of which the stock no longer covers what is reserved.
C24_Witness ==
    /\ AfterReserveOfSame("calculate")
    /\ ~last.result.error
    /\ \E m \in DOMAIN prev.result.material_requirements :
          /\ get(prev.reserved, m) > 0
          /\ get(stock_data, m) > 0
          /\ get(stock_data, m) < get(prev.reserved, m) + prev.result.material_requirements[m]
          /\ last.result.material_balance[m].available = 0
    /\ \E m \in DOMAIN prev.result.material_requirements :
          get(stock_data, m) > get(prev.reserved, m) + prev.result.material_requirements[m]

\* C25: a successful reserve or release of S changes the reserved quantity only of the
\* materials of which S requires a strictly positive quantity; the entry of every other
\* material and the stock map stay as they were, and a release enters no material into
\* the ledger.
C25_LedgerFrame ==
    [][(last'.op \in {"reserve", "release"} /\ ~last'.result.error) =>
          LET required == required_materials(materials_df, last'.selected)
          IN  /\ stock_data' = stock_data
              /\ \A m \in Keys(reserved_materials', reserved_materials) :
                     get(required, m) <= 0 =>
                         /\ get(reserved_materials', m) = get(reserved_materials, m)
                         /\ m \in DOMAIN reserved_materials' <=> m \in DOMAIN reserved_materials
              /\ last'.op = "release" =>
                     DOMAIN reserved_materials' \subseteq DOMAIN reserved_materials]_vars

\* Reached: a release that lowered one entry and found no entry for another material
\* that the released orders require.
C25_Witness ==
    /\ last.op = "release"
    /\ ~last.result.error
    /\ \E m \in DOMAIN last.result.material_requirements :
          m \notin DOMAIN last.reserved /\ m \notin DOMAIN reserved_materials
    /\ \E m \in DOMAIN last.reserved : reserved_materials[m] < last.reserved[m]

\* C26: a schedule has exactly one entry for each catalog order whose number is among
\* the selected identifiers and none for any other identifier, total_orders is the
\* number of entries, and the same result is returned for every arrangement of the
\* selected identifiers.
C26_PartialResolution ==
    Scheduled =>
        LET schedule == last.result.schedule
            resolved == {j \in DOMAIN orders_df.rows :
                            orders_df.rows[j].number \in Range(last.selected)}
        IN  /\ \A j \in resolved :
                   Cardinality({i \in DOMAIN schedule :
                                   schedule[i].number = orders_df.rows[j].number}) = 1
            /\ \A i \in DOMAIN schedule :
                   \E j \in resolved : schedule[i].number = orders_df.rows[j].number
            /\ Len(schedule) = Cardinality(resolved)
            /\ last.result.total_orders = Len(schedule)
            /\ \A arranged \in Arrangements(last.selected) :
                   last.result \in optimize_production_schedule(orders_df, operation_times,
                                                                arranged, schedule[1].start)

\* Reached: a schedule for two selected identifiers of which one is a catalog order and
\* the other is not.
C26_Witness ==
    /\ Scheduled
    /\ Len(last.selected) = 2
    /\ \E i, k \in DOMAIN last.selected :
          /\ \E j \in DOMAIN orders_df.rows : orders_df.rows[j].number = last.selected[i]
          /\ \A j \in DOMAIN orders_df.rows : orders_df.rows[j].number # last.selected[k]
    /\ Len(last.result.schedule) = 1
    /\ Len(orders_df.rows) >= 2
====
